---- MODULE Spec2Model ----
(***************************************************************************)
(* Model of pkg/collector/python/init.go: the lifecycle of the embedded    *)
(* Python runtime handle ("six") held in process-wide state.               *)
(*                                                                         *)
(* Strings that the code transforms (the interpreter version string) are   *)
(* sequences of characters; a C string pointer is <<>> when NULL and <<s>> *)
(* when it points at the string s.  A six_t pointer is 0 when nil and the  *)
(* index of the instance in "handles" otherwise.                           *)
(***************************************************************************)
EXTENDS Integers, Sequences, FiniteSets, TLC

\* ---- bounds ----
MaxHandles == 2     \* runtime instances created in one behaviour
MaxDoubleFree == 1  \* C.destroy calls made on an already released instance

\* ---- inputs ----
Versions == {-1, 0, 2, 3, 5}                      \* config "python_version"
PathArgs == {<<"/etc/checks.d", "/opt/checks.d", "/etc/checks.d">>}
ErrorStrings == {"could not load python", "no memory"}
NL == "\n"
RawVersions == {<<"3", NL>>, <<NL, "2", NL, "7">>, <<"2", "7">>, <<NL>>}
StatResults == {"ok", "ENOENT", "EACCES"}      \* err of os.Stat
GOOSes == {"windows", "linux"}
AgentVersions == {<< >>, <<7, 16, 0>>}         \* version.New: error, or Major/Minor/Patch

\* ---- build-time values ----
pythonHome2 == "/opt/embedded2"
pythonHome3 == "/opt/embedded3"
ExeFolder == "/install/bin"                    \* executable.Folder()

NULL == << >>
nil == 0
NoError == << >>

VARIABLES six, handles, PythonVersion, PythonHome, PythonPath,
          cacheVersion, series, containerFilter,
          goos, agentVersion,
          crashed, op, calls, ret

progVars == <<six, handles, PythonVersion, PythonHome, PythonPath,
              cacheVersion, series, containerFilter, crashed>>
envVars == <<goos, agentVersion>>
vars == <<six, handles, PythonVersion, PythonHome, PythonPath,
          cacheVersion, series, containerFilter,
          goos, agentVersion, crashed, op, calls, ret>>

\* ---- helpers ----
Join(a, b, c) == <<a, b, c>>
IsNotExist(err) == err = "ENOENT"
GoString(p) == IF p = NULL THEN << >> ELSE p[1]

RECURSIVE Replace(_, _)
\* strings.Replace(s, old, "", -1) for a one-character old
Replace(s, old) ==
  IF s = << >> THEN << >>
  ELSE IF Head(s) = old THEN Replace(Tail(s), old)
       ELSE <<Head(s)>> \o Replace(Tail(s), old)

Call(f, h, arg, r) == [f |-> f, h |-> h, arg |-> arg, ret |-> r]

\* fmt.Errorf(prefix + verb, v): the message is the literal prefix followed by
\* the formatted value; an empty prefix contributes nothing
Errorf(prefix, v) == IF prefix = "" THEN <<v>> ELSE <<prefix, v>>

PyVersionResults == {NULL} \cup {<<r>> : r \in RawVersions}

\* ---- the callback dispatch table of a six_t ----
Slots == {"cgo_free", "get_version", "get_hostname", "get_clustername", "headers",
          "log", "get_config", "set_external_tags", "submit_metric",
          "submit_service_check", "submit_event", "get_subprocess_output",
          "tags", "is_excluded", "get_connection_info"}
EmptyTable == [s \in Slots |-> ""]
set_cb(t, slot, fn) == [t EXCEPT ![slot] = fn]

initCgoFree(t) == set_cb(t, "cgo_free", "free")

initDatadogAgentModule(t) ==
  set_cb(set_cb(set_cb(set_cb(set_cb(set_cb(set_cb(t,
    "get_version", "GetVersion"),
    "get_hostname", "GetHostname"),
    "get_clustername", "GetClusterName"),
    "headers", "Headers"),
    "log", "LogMessage"),
    "get_config", "GetConfig"),
    "set_external_tags", "SetExternalTags")

initAggregatorModule(t) ==
  set_cb(set_cb(set_cb(t,
    "submit_metric", "SubmitMetric"),
    "submit_service_check", "SubmitServiceCheck"),
    "submit_event", "SubmitEvent")

\* slip: the subprocess callback bound into the tagger's slot
initUtilModule_WrongSlot(t) == set_cb(t, "tags", "GetSubprocessOutput")

initUtilModule(t) == set_cb(t, "get_subprocess_output", "GetSubprocessOutput")

initTaggerModule(t) == set_cb(t, "tags", "Tags")

initContainersModule(t) == set_cb(t, "is_excluded", "IsContainerExcluded")

initkubeutilModule(t) == set_cb(t, "get_connection_info", "GetKubeletConnectionInfo")

\* the registrations of Initialize, in program order
RegisterAll(t) ==
  initkubeutilModule(initContainersModule(initTaggerModule(initUtilModule(
    initAggregatorModule(initDatadogAgentModule(initCgoFree(t)))))))

\* slip: the container filter built after the containers module is registered
RegisterCalls_FilterLast(h) ==
  << Call("initCgoFree", h, "", << >>),
     Call("initDatadogAgentModule", h, "", << >>),
     Call("initAggregatorModule", h, "", << >>),
     Call("initUtilModule", h, "", << >>),
     Call("initTaggerModule", h, "", << >>),
     Call("initContainersModule", h, "", << >>),
     Call("initContainerFilter", nil, "", << >>),
     Call("initkubeutilModule", h, "", << >>) >>

\* the state of the host's container filter once initContainerFilter returned
initContainerFilter == TRUE

RegisterCalls(h) ==
  << Call("initCgoFree", h, "", << >>),
     Call("initDatadogAgentModule", h, "", << >>),
     Call("initAggregatorModule", h, "", << >>),
     Call("initUtilModule", h, "", << >>),
     Call("initTaggerModule", h, "", << >>),
     Call("initContainerFilter", nil, "", << >>),
     Call("initContainersModule", h, "", << >>),
     Call("initkubeutilModule", h, "", << >>) >>

\* ---- telemetry ----
Tag(k, v) == <<k, v>>

\* slip: the serie is built but never handed to the aggregator
sendTelemetry_NoSample(pythonVersion) == series

\* slip: the error of version.New ignored, the zero Version formatted
sendTelemetry_ZeroTags(pythonVersion) ==
  LET av == IF agentVersion # << >> THEN agentVersion ELSE <<0, 0, 0>>
  IN  Append(series, [Name |-> "datadog.agent.python.version",
                      Value |-> 1,
                      Tags |-> << Tag("python_version", pythonVersion),
                                  Tag("agent_version_major", av[1]),
                                  Tag("agent_version_minor", av[2]),
                                  Tag("agent_version_patch", av[3]) >>,
                      MType |-> "APIGaugeType"])

sendTelemetry(pythonVersion) ==
  LET tags == <<Tag("python_version", pythonVersion)>> \o
              (IF agentVersion # << >>
               THEN << Tag("agent_version_major", agentVersion[1]),
                       Tag("agent_version_minor", agentVersion[2]),
                       Tag("agent_version_patch", agentVersion[3]) >>
               ELSE << >>)
  IN  Append(series, [Name |-> "datadog.agent.python.version",
                      Value |-> 1,
                      Tags |-> tags,
                      MType |-> "APIGaugeType"])

\* ---- Initialize ----
\* the constructor and the compiled home path selected for a supported version
Constructor(pythonVersion) == IF pythonVersion = 2 THEN "make2" ELSE "make3"
\* slip: the version-2 home path handed to both constructors
CompiledHome_Same(pythonVersion) == pythonHome2

CompiledHome(pythonVersion) == IF pythonVersion = 2 THEN pythonHome2 ELSE pythonHome3

\* the directory whose existence is probed under the home path
Marker(home) == Join(home, "lib", "python2.7")

\* slip: any error of os.Stat taken for a missing directory
ResolveHome_AnyError(home, statErr) ==
  IF goos = "windows" /\ statErr # "ok" THEN ExeFolder ELSE home

\* slip: the override applied on Windows whatever os.Stat reports
ResolveHome_Always(home, statErr) == IF goos = "windows" THEN ExeFolder ELSE home

\* the Windows override of the published home path; statErr is the err of os.Stat
ResolveHome(home, statErr) ==
  IF goos = "windows" /\ IsNotExist(statErr) THEN ExeFolder ELSE home

StatCalls(home, statErr) ==
  IF goos = "windows"
  THEN << Call("executable.Folder", nil, "", <<ExeFolder>>),
          Call("os.Stat", nil, Marker(home), <<statErr>>) >>
  ELSE << >>

RECURSIVE Dedup(_)
Dedup(ps) ==
  IF ps = << >> THEN << >>
  ELSE LET front == Dedup(SubSeq(ps, 1, Len(ps) - 1)) IN
       IF \E k \in 1..Len(front) : front[k] = ps[Len(ps)]
       THEN front ELSE Append(front, ps[Len(ps)])

\* slip: a path that was already added is skipped
AddPathCalls_Dedup(h, paths) ==
  [i \in 1..Len(Dedup(paths)) |-> Call("add_python_path", h, Dedup(paths)[i], << >>)]

AddPathCalls(h, paths) ==
  [i \in 1..Len(paths) |-> Call("add_python_path", h, paths[i], << >>)]

\* slip: the handle's error string wrapped in a message of the host's own
BootError_Wrapped(err) == Errorf("could not initialize python: ", GoString(err))

\* the error built from the string get_error returns
BootError(err) == Errorf("", GoString(err))

RECURSIVE TrimRight(_)
TrimRight(s) ==
  IF s # << >> /\ s[Len(s)] = NL THEN TrimRight(SubSeq(s, 1, Len(s) - 1)) ELSE s

\* slip: the string returned by the query dropped
StoredVersion_Blank(res) == << >>

\* slip: only trailing newlines removed
StoredVersion_TrimRight(res) == TrimRight(GoString(res))

\* the version string stored from the result of get_py_version
StoredVersion(res) == Replace(GoString(res), NL)

\* slip: the callbacks registered before is_initialized is consulted
NewHandle_RegisterAlways(pythonVersion, up) ==
  [ctor |-> Constructor(pythonVersion), home |-> CompiledHome(pythonVersion),
   initialized |-> up, released |-> 0, cb |-> RegisterAll(EmptyTable)]

\* the instance as the embedding API leaves it: how it was made, whether init
\* brought it up, how often it was released, and its callback table (the search
\* paths handed to add_python_path are kept in the call record)
NewHandle(pythonVersion, up) ==
  [ctor |-> Constructor(pythonVersion), home |-> CompiledHome(pythonVersion),
   initialized |-> up, released |-> 0,
   cb |-> IF up = 0 THEN EmptyTable ELSE RegisterAll(EmptyTable)]

\* slip: the global handle cleared on the unknown-version path
InitUnknownVersion_Reset(pythonVersion) ==
  /\ ret' = Errorf("unknown requested version of python: ", pythonVersion)
  /\ calls' = << >>
  /\ six' = nil
  /\ UNCHANGED <<handles, PythonVersion, PythonHome, PythonPath, cacheVersion,
                 series, containerFilter, crashed>>

\* the configured version is neither 2 nor 3
InitUnknownVersion(pythonVersion) ==
  /\ ret' = Errorf("unknown requested version of python: ", pythonVersion)
  /\ calls' = << >>
  /\ UNCHANGED progVars

\* slip: the cached version cleared when no instance could be made
InitNoSix_ClearVersion(pythonVersion) ==
  /\ six' = nil
  /\ PythonHome' = CompiledHome(pythonVersion)
  /\ PythonVersion' = << >>
  /\ ret' = Errorf("could not init six lib for python version ", pythonVersion)
  /\ calls' = <<Call(Constructor(pythonVersion), nil, CompiledHome(pythonVersion), <<nil>>)>>
  /\ UNCHANGED <<handles, PythonPath, cacheVersion, series, containerFilter, crashed>>

\* slip: the result of make2/make3 tested before it is stored in the global
InitNoSix_KeepSix(pythonVersion) ==
  /\ PythonHome' = CompiledHome(pythonVersion)
  /\ ret' = Errorf("could not init six lib for python version ", pythonVersion)
  /\ calls' = <<Call(Constructor(pythonVersion), nil, CompiledHome(pythonVersion), <<nil>>)>>
  /\ UNCHANGED <<six, handles, PythonVersion, PythonPath, cacheVersion,
                 series, containerFilter, crashed>>

\* make2/make3 returned nil
InitNoSix(pythonVersion) ==
  LET home == CompiledHome(pythonVersion) IN
  /\ six' = nil
  /\ PythonHome' = home
  /\ ret' = Errorf("could not init six lib for python version ", pythonVersion)
  /\ calls' = <<Call(Constructor(pythonVersion), nil, home, <<nil>>)>>
  /\ UNCHANGED <<handles, PythonVersion, PythonPath, cacheVersion,
                 series, containerFilter, crashed>>

\* make2/make3 returned a new instance
InitWithSix(pythonVersion, paths, statErr) ==
  LET h == Len(handles) + 1
      home == CompiledHome(pythonVersion)
      boot(up) == <<Call(Constructor(pythonVersion), nil, home, <<h>>)>>
                  \o StatCalls(home, statErr) \o AddPathCalls(h, paths)
                  \o << Call("init", h, "", << >>),
                        Call("is_initialized", h, "", <<up>>) >>
  IN
  /\ Len(handles) < MaxHandles
  /\ six' = h
  /\ PythonHome' = ResolveHome(home, statErr)
  /\ \/ \E errStr \in ErrorStrings :
          /\ handles' = Append(handles, NewHandle(pythonVersion, 0))
          /\ ret' = BootError(<<errStr>>)
          /\ calls' = boot(0) \o <<Call("get_error", h, "", <<errStr>>)>>
          /\ UNCHANGED <<PythonVersion, cacheVersion, series, containerFilter>>
     \/ \E res \in PyVersionResults :
          /\ handles' = Append(handles, NewHandle(pythonVersion, 1))
          /\ IF res # NULL
             THEN /\ PythonVersion' = StoredVersion(res)
                  /\ cacheVersion' = PythonVersion'
             ELSE UNCHANGED <<PythonVersion, cacheVersion>>
          /\ series' = sendTelemetry(pythonVersion)
          /\ containerFilter' = initContainerFilter
          /\ ret' = NoError
          /\ calls' = boot(1) \o <<Call("get_py_version", h, "", res)>>
                      \o (IF res # NULL
                          THEN <<Call("cache.Set", nil, "pythonVersion",
                                      <<StoredVersion(res)>>)>>
                          ELSE << >>)
                      \o <<Call("AddRecurrentSeries", nil, "", <<pythonVersion>>)>>
                      \o RegisterCalls(h)
  /\ UNCHANGED <<PythonPath, crashed>>

Initialize ==
  /\ ~crashed
  /\ \E paths \in PathArgs, pythonVersion \in Versions :
       /\ op' = [name |-> "Initialize", version |-> pythonVersion, paths |-> paths]
       /\ IF pythonVersion \notin {2, 3}
          THEN InitUnknownVersion(pythonVersion)
          ELSE \/ InitNoSix(pythonVersion)
               \/ \E statErr \in StatResults :
                    InitWithSix(pythonVersion, paths, statErr)
  /\ UNCHANGED envVars

\* ---- Destroy ----
RECURSIVE ExtraReleases(_)
ExtraReleases(hs) ==
  IF hs = << >> THEN 0
  ELSE (IF Head(hs).released > 1 THEN Head(hs).released - 1 ELSE 0)
       + ExtraReleases(Tail(hs))

\* the C.destroy calls made so far on instances that were already released
DoubleFrees == ExtraReleases(handles)

\* slip: only an instance that booted is released
Destroy_OnlyBooted ==
  /\ ~crashed
  /\ IF six # nil THEN handles[six].released > 0 => DoubleFrees < MaxDoubleFree ELSE TRUE
  /\ op' = [name |-> "Destroy", version |-> 0, paths |-> << >>]
  /\ ret' = NoError
  /\ IF (IF six # nil THEN handles[six].initialized = 1 ELSE FALSE)
     THEN /\ handles' = [handles EXCEPT ![six].released = @ + 1]
          /\ calls' = <<Call("destroy", six, "", << >>)>>
          /\ crashed' \in (IF handles[six].released > 0 THEN BOOLEAN ELSE {FALSE})
     ELSE /\ calls' = << >>
          /\ UNCHANGED <<handles, crashed>>
  /\ UNCHANGED <<six, PythonVersion, PythonHome, PythonPath, cacheVersion,
                 series, containerFilter>>
  /\ UNCHANGED envVars

\* C.destroy on an instance that was already released is a double free: the
\* process may crash or carry on.
Destroy ==
  /\ ~crashed
  /\ IF six # nil THEN handles[six].released > 0 => DoubleFrees < MaxDoubleFree ELSE TRUE
  /\ op' = [name |-> "Destroy", version |-> 0, paths |-> << >>]
  /\ ret' = NoError
  /\ IF six # nil
     THEN /\ handles' = [handles EXCEPT ![six].released = @ + 1]
          /\ calls' = <<Call("destroy", six, "", << >>)>>
          /\ crashed' \in (IF handles[six].released > 0 THEN BOOLEAN ELSE {FALSE})
     ELSE /\ calls' = << >>
          /\ UNCHANGED <<handles, crashed>>
  /\ UNCHANGED <<six, PythonVersion, PythonHome, PythonPath, cacheVersion,
                 series, containerFilter>>
  /\ UNCHANGED envVars

GetSix == six

Init ==
  /\ six = nil
  /\ handles = << >>
  /\ PythonVersion = << >>
  /\ PythonHome = ""
  /\ PythonPath = ""
  /\ cacheVersion = << >>
  /\ series = << >>
  /\ containerFilter = FALSE
  /\ goos \in GOOSes
  /\ agentVersion \in AgentVersions
  /\ crashed = FALSE
  /\ op = [name |-> "none", version |-> 0, paths |-> << >>]
  /\ calls = << >>
  /\ ret = NoError

Next == Initialize \/ Destroy

Spec == Init /\ [][Next]_vars

\* ---- what the last operation did ----
IsInitialize == op.name = "Initialize"
IsDestroy == op.name = "Destroy"
Made(f) == \E i \in 1..Len(calls) : calls[i].f = f
Returned(f, r) == \E i \in 1..Len(calls) : calls[i].f = f /\ calls[i].ret = r
ForeignFns == {"make2", "make3", "add_python_path", "init", "is_initialized",
               "get_error", "get_py_version", "destroy", "initCgoFree",
               "initDatadogAgentModule", "initAggregatorModule", "initUtilModule",
               "initTaggerModule", "initContainersModule", "initkubeutilModule"}
RegisterFns == {"initCgoFree", "initDatadogAgentModule", "initAggregatorModule",
                "initUtilModule", "initTaggerModule", "initContainersModule",
                "initkubeutilModule"}
Live == {i \in 1..Len(handles) : handles[i].released = 0}

\* C1: over any sequence of Initialize and Destroy calls the release operation
\* (C.destroy) is invoked at most once on each runtime instance, so a Destroy
\* issued after the instance was destroyed makes no foreign call.
C1_ReleasedAtMostOnce ==
  \A i \in 1..Len(handles) : handles[i].released <= 1

\* C2: in every reachable state the number of runtime instances created and not
\* yet released is zero or one.
C2_AtMostOneLive == Cardinality(Live) <= 1

\* C3 (as stated): an Initialize with a configured version other than 2 or 3
\* returns an error carrying the value, makes no call at all, creates no handle,
\* emits no telemetry, and GetSix reports absent afterwards.
C3_UnknownVersionAbsent ==
  [][ (op'.name = "Initialize" /\ op'.version \notin {2, 3})
      => /\ ret' = <<"unknown requested version of python: ", op'.version>>
         /\ calls' = << >>
         /\ handles' = handles
         /\ series' = series
         /\ six' = nil ]_vars

\* C3 (amended): an Initialize with a configured version other than 2 or 3
\* returns an error carrying the value, makes no call at all, creates no handle,
\* emits no telemetry, and GetSix reports what it reported before the call:
\* absent when six was nil, the earlier handle otherwise.
C3_UnknownVersionNoEffect ==
  [][ (op'.name = "Initialize" /\ op'.version \notin {2, 3})
      => /\ ret' = <<"unknown requested version of python: ", op'.version>>
         /\ calls' = << >>
         /\ handles' = handles
         /\ series' = series
         /\ six' = six ]_vars

C3_Witness ==
  /\ IsInitialize /\ op.version = 5
  /\ ret = <<"unknown requested version of python: ", 5>>
  /\ calls = << >>
  /\ six = nil

\* C4: a handle made for configured version 2 is made by make2 with pythonHome2,
\* one made for version 3 by make3 with pythonHome3; no handle combines the
\* constructor of one version with the home path of the other, and a handle's
\* constructor and home path never change once it exists.
C4_VersionMatchesHome ==
  [][ /\ \A i \in 1..Len(handles') :
           \/ handles'[i].ctor = "make2" /\ handles'[i].home = pythonHome2
           \/ handles'[i].ctor = "make3" /\ handles'[i].home = pythonHome3
      /\ \A i \in 1..Len(handles) :
           /\ i <= Len(handles')
           /\ handles'[i].ctor = handles[i].ctor
           /\ handles'[i].home = handles[i].home
      /\ (op'.name = "Initialize" /\ Len(handles') > Len(handles))
           => /\ op'.version = 2 =>
                   /\ handles'[six'].ctor = "make2"
                   /\ calls'[1] = [f |-> "make2", h |-> nil, arg |-> pythonHome2, ret |-> <<six'>>]
              /\ op'.version = 3 =>
                   /\ handles'[six'].ctor = "make3"
                   /\ calls'[1] = [f |-> "make3", h |-> nil, arg |-> pythonHome3, ret |-> <<six'>>]
              /\ op'.version \in {2, 3} ]_vars

C4_Witness ==
  /\ Len(handles) = 2
  /\ handles[1].ctor = "make2" /\ handles[1].home = pythonHome2
  /\ handles[2].ctor = "make3" /\ handles[2].home = pythonHome3
  /\ handles[1].released = 1

\* C5: when is_initialized reports 0 after init, Initialize returns an error
\* whose message is exactly the string get_error returned for the handle, and in
\* that call PythonVersion and the cache entry are not written, no telemetry
\* sample is emitted, and no free callback or module is registered.
C5_BootFailure ==
  [][ (op'.name = "Initialize" /\ \E i \in 1..Len(calls') :
          calls'[i].f = "is_initialized" /\ calls'[i].ret = <<0>>)
      => /\ calls'[Len(calls')].f = "get_error"
         /\ calls'[Len(calls')].h = six'
         /\ ret' = <<calls'[Len(calls')].ret[1]>>
         /\ PythonVersion' = PythonVersion
         /\ cacheVersion' = cacheVersion
         /\ series' = series
         /\ \A i \in 1..Len(calls') : calls'[i].f \notin RegisterFns
         /\ \A s \in Slots : handles'[six'].cb[s] = ""
         /\ handles'[six'].initialized = 0 ]_vars

C5_Witness ==
  /\ IsInitialize
  /\ Returned("is_initialized", <<0>>)
  /\ ret = <<"no memory">>
  /\ PythonVersion = <<"2", "7">>
  /\ Len(series) = 1

NotNL(c) == c # NL
NoNewlines(s) == SelectSeq(s, NotNL)

\* C6 (as stated): after every Initialize that returns no error, PythonVersion
\* and the agent cache entry equal the string get_py_version returned for the
\* handle just booted with every newline removed.
C6_CachedIsStripped ==
  (IsInitialize /\ ret = NoError)
  => \E i \in 1..Len(calls) :
       /\ calls[i].f = "get_py_version" /\ calls[i].h = six
       /\ PythonVersion = NoNewlines(GoString(calls[i].ret))
       /\ cacheVersion = NoNewlines(GoString(calls[i].ret))

\* C6 (amended): after every Initialize that returns no error and in which
\* get_py_version returned a non-null string, PythonVersion and the agent cache
\* entry equal that string with every newline removed, wherever the newline
\* sat; when get_py_version returned null both keep the value they had.
C6_CachedIsStrippedWhenReported ==
  [][ (op'.name = "Initialize" /\ ret' = NoError)
      => \E i \in 1..Len(calls') :
           /\ calls'[i].f = "get_py_version" /\ calls'[i].h = six'
           /\ IF calls'[i].ret # NULL
              THEN /\ PythonVersion' = NoNewlines(calls'[i].ret[1])
                   /\ cacheVersion' = NoNewlines(calls'[i].ret[1])
                   /\ \A k \in 1..Len(PythonVersion') : PythonVersion'[k] # NL
              ELSE /\ PythonVersion' = PythonVersion
                   /\ cacheVersion' = cacheVersion ]_vars

C6_Witness ==
  /\ IsInitialize /\ ret = NoError
  /\ Returned("get_py_version", << <<NL, "2", NL, "7">> >>)
  /\ PythonVersion = <<"2", "7">>
  /\ cacheVersion = <<"2", "7">>

\* C7: an Initialize that returns no error appends exactly one sample to the
\* recurrent series, a gauge of value 1 whose python_version tag is the
\* configured version; an Initialize that returns an error appends none.
C7_OneSamplePerSuccess ==
  [][ op'.name = "Initialize"
      => IF ret' = NoError
         THEN /\ Len(series') = Len(series) + 1
              /\ SubSeq(series', 1, Len(series)) = series
              /\ LET smp == series'[Len(series')] IN
                   /\ smp.Name = "datadog.agent.python.version"
                   /\ smp.Value = 1
                   /\ smp.MType = "APIGaugeType"
                   /\ smp.Tags[1] = <<"python_version", op'.version>>
                   /\ \A k \in 2..Len(smp.Tags) : smp.Tags[k][1] # "python_version"
              /\ Cardinality({i \in 1..Len(calls') : calls'[i].f = "AddRecurrentSeries"}) = 1
         ELSE /\ series' = series
              /\ \A i \in 1..Len(calls') : calls'[i].f # "AddRecurrentSeries" ]_vars

C7_Witness ==
  /\ IsInitialize /\ ret = NoError /\ op.version = 3
  /\ Len(series) = 2
  /\ series[1].Tags[1] = <<"python_version", 2>>
  /\ series[2].Tags[1] = <<"python_version", 3>>

\* C8: after a boot that succeeded Initialize returns no error whether or not
\* the agent's own version parses; the sample carries the python_version tag,
\* followed by the three agent_version_* tags when the version parses and by
\* nothing when it does not.
C8_AgentVersionSoftFailure ==
  (IsInitialize /\ Returned("is_initialized", <<1>>))
  => /\ ret = NoError
     /\ series # << >>
     /\ LET t == series[Len(series)].Tags IN
          /\ t[1] = <<"python_version", op.version>>
          /\ IF agentVersion = << >>
             THEN Len(t) = 1
             ELSE t = << t[1],
                         <<"agent_version_major", agentVersion[1]>>,
                         <<"agent_version_minor", agentVersion[2]>>,
                         <<"agent_version_patch", agentVersion[3]>> >>

C8_Witness ==
  /\ agentVersion = << >>
  /\ IsInitialize /\ Returned("is_initialized", <<1>>)
  /\ ret = NoError
  /\ series[Len(series)].Tags = << <<"python_version", 2>> >>

\* C9: while no handle has been created six is nil (before any Initialize,
\* after an unknown-version failure, after a creation that returned nil); an
\* Initialize whose creation returns nil leaves six nil and returns an error
\* having made the constructor call only; and a Destroy that finds six nil
\* makes no call and changes nothing.
C9_DestroyWithoutHandle ==
  [][ /\ handles = << >> => six = nil
      /\ (op'.name = "Initialize" /\ Len(calls') > 0 /\ calls'[1].ret = <<nil>>)
           => /\ six' = nil
              /\ ret' = <<"could not init six lib for python version ", op'.version>>
              /\ Len(calls') = 1
              /\ calls'[1].f \in {"make2", "make3"}
              /\ handles' = handles
              /\ series' = series
      /\ (op'.name = "Destroy" /\ six = nil)
           => /\ calls' = << >>
              /\ UNCHANGED progVars ]_vars

C9_Witness ==
  /\ IsDestroy /\ calls = << >>
  /\ six = nil
  /\ handles = << >>
  /\ PythonHome = pythonHome3

C10_WitnessPresent ==
  /\ goos = "windows"
  /\ IsInitialize /\ op.version = 2
  /\ Returned("os.Stat", <<"ok">>)
  /\ PythonHome = pythonHome2

\* ---- registering a module again on the booted handle ----
ModuleInit(m, t) ==
  CASE m = "initCgoFree" -> initCgoFree(t)
    [] m = "initDatadogAgentModule" -> initDatadogAgentModule(t)
    [] m = "initAggregatorModule" -> initAggregatorModule(t)
    [] m = "initUtilModule" -> initUtilModule(t)
    [] m = "initTaggerModule" -> initTaggerModule(t)
    [] m = "initContainersModule" -> initContainersModule(t)
    [] m = "initkubeutilModule" -> initkubeutilModule(t)

\* one of the C.init* registration functions called once more on the live,
\* booted handle held in six
Register ==
  /\ ~crashed
  /\ six # nil
  /\ handles[six].initialized = 1
  /\ handles[six].released = 0
  /\ \E m \in RegisterFns :
       /\ handles' = [handles EXCEPT ![six].cb = ModuleInit(m, @)]
       /\ calls' = <<Call(m, six, "", << >>)>>
  /\ op' = [name |-> "Register", version |-> 0, paths |-> << >>]
  /\ ret' = NoError
  /\ UNCHANGED <<six, PythonVersion, PythonHome, PythonPath, cacheVersion,
                 series, containerFilter, crashed>>
  /\ UNCHANGED envVars

NextReg == Initialize \/ Destroy \/ Register

SpecReg == Init /\ [][NextReg]_vars

FullTable ==
  [s \in Slots |->
     CASE s = "cgo_free" -> "free"
       [] s = "get_version" -> "GetVersion"
       [] s = "get_hostname" -> "GetHostname"
       [] s = "get_clustername" -> "GetClusterName"
       [] s = "headers" -> "Headers"
       [] s = "log" -> "LogMessage"
       [] s = "get_config" -> "GetConfig"
       [] s = "set_external_tags" -> "SetExternalTags"
       [] s = "submit_metric" -> "SubmitMetric"
       [] s = "submit_service_check" -> "SubmitServiceCheck"
       [] s = "submit_event" -> "SubmitEvent"
       [] s = "get_subprocess_output" -> "GetSubprocessOutput"
       [] s = "tags" -> "Tags"
       [] s = "is_excluded" -> "IsContainerExcluded"
       [] s = "get_connection_info" -> "GetKubeletConnectionInfo"]

\* C11: registering the free callback or any of the six modules a second time
\* on the handle Initialize registered them on returns no error and leaves the
\* handle's dispatch table exactly as the first registration left it, every
\* slot bound to its own callback.
C11_RegisterTwice ==
  [][ op'.name = "Register"
      => /\ ret' = NoError
         /\ handles' = handles
         /\ handles'[six'].cb = FullTable ]_vars

C11_Witness ==
  /\ op.name = "Register"
  /\ calls = <<[f |-> "initContainersModule", h |-> six, arg |-> "", ret |-> << >>]>>
  /\ handles[six].cb["is_excluded"] = "IsContainerExcluded"
  /\ handles[six].cb["cgo_free"] = "free"

\* C12: once Destroy has released the handle six no longer refers to it: GetSix
\* never returns a released handle, so no later operation can pass one to the
\* embedding API.
C12_NoReleasedHandleHeld ==
  GetSix # nil => handles[GetSix].released = 0

\* C13: in an Initialize that created a handle the add_python_path calls are
\* exactly the supplied paths, each once, in the caller's order with duplicates
\* kept, all on the new handle, all after the constructor call and before
\* init; an Initialize that created no handle adds no path.
C13_PathsInOrderBeforeBoot ==
  IsInitialize
  => LET adds == SelectSeq(calls, LAMBDA c : c.f = "add_python_path")
         idx(f) == CHOOSE i \in 1..Len(calls) : calls[i].f = f
     IN  IF Made("init")
         THEN /\ Len(adds) = Len(op.paths)
              /\ \A k \in 1..Len(adds) : adds[k].arg = op.paths[k] /\ adds[k].h = six
              /\ calls[1].f \in {"make2", "make3"} /\ calls[1].ret = <<six>>
              /\ \A i \in 1..Len(calls) :
                   calls[i].f = "add_python_path" => (1 < i /\ i < idx("init"))
              /\ Cardinality({i \in 1..Len(calls) : calls[i].f = "init"}) = 1
         ELSE adds = << >>

C13_Witness ==
  /\ IsInitialize /\ ret = NoError
  /\ op.paths = <<"/etc/checks.d", "/opt/checks.d", "/etc/checks.d">>
  /\ Cardinality({i \in 1..Len(calls) : calls[i].f = "add_python_path"}) = 3

RegisterCallsMade == SelectSeq(calls, LAMBDA c : c.f \in RegisterFns)

\* C14: a handle whose is-initialized flag is zero has no callback bound; every
\* registration call of Initialize is made on the new handle after
\* is_initialized returned nonzero for it; and an Initialize that returned no
\* error has registered the free callback first and then all six modules, so
\* the live handle's table is complete.
C14_RegistrationAfterBoot ==
  /\ \A i \in 1..Len(handles) :
       handles[i].initialized = 0 => \A s \in Slots : handles[i].cb[s] = ""
  /\ IsInitialize
     => /\ \A i \in 1..Len(calls) :
             calls[i].f \in RegisterFns
             => /\ calls[i].h = six
                /\ handles[six].initialized = 1
                /\ \E j \in 1..(i - 1) :
                     /\ calls[j].f = "is_initialized"
                     /\ calls[j].h = six
                     /\ calls[j].ret = <<1>>
        /\ ret = NoError
             => /\ six # nil
                /\ handles[six].released = 0
                /\ handles[six].cb = FullTable
                /\ Len(RegisterCallsMade) = 7
                /\ RegisterCallsMade[1].f = "initCgoFree"
                /\ {RegisterCallsMade[k].f : k \in 1..7} = RegisterFns

C14_Witness ==
  /\ IsInitialize /\ ret = NoError
  /\ Len(handles) = 2
  /\ handles[1].initialized = 0 /\ handles[1].cb["cgo_free"] = ""
  /\ handles[2].initialized = 1 /\ handles[2].cb["cgo_free"] = "free"
  /\ calls[Len(calls)].f = "initkubeutilModule"

\* C15: in every Initialize the call of initContainerFilter precedes the call
\* that registers the containers module, so whenever a handle has the
\* is_excluded callback bound the container filter has been built.
C15_FilterBeforeContainersModule ==
  /\ IsInitialize
     => \A i \in 1..Len(calls) :
          calls[i].f = "initContainersModule"
          => \E j \in 1..(i - 1) : calls[j].f = "initContainerFilter"
  /\ (\E i \in 1..Len(handles) : handles[i].cb["is_excluded"] # "") => containerFilter

C15_Witness ==
  /\ IsInitialize
  /\ Made("initContainersModule") /\ Made("initContainerFilter")
  /\ containerFilter
  /\ handles[six].cb["is_excluded"] = "IsContainerExcluded"

\* ---- the caller that calls Destroy after each Initialize ----
NextAlt ==
  \/ op.name # "Initialize" /\ Initialize
  \/ op.name = "Initialize" /\ Destroy

SpecAlt == Init /\ [][NextAlt]_vars

\* C16: an Initialize that fails at boot leaves the handle it created in six,
\* and the Destroy that follows calls C.destroy exactly once, on that handle;
\* when the caller calls Destroy after each Initialize, whatever the outcome of
\* the Initialize, no created handle is left unreleased after a Destroy.
C16_DestroyAfterEachInitialize ==
  [][ /\ (op'.name = "Initialize" /\ \E i \in 1..Len(calls') :
             calls'[i].f = "is_initialized" /\ calls'[i].ret = <<0>>)
          => /\ Len(handles') = Len(handles) + 1
             /\ six' = Len(handles')
             /\ handles'[six'].released = 0
      /\ (op'.name = "Destroy" /\ IsInitialize /\ Returned("is_initialized", <<0>>))
          => /\ six = Len(handles)
             /\ calls' = <<[f |-> "destroy", h |-> six, arg |-> "", ret |-> << >>]>>
             /\ handles'[six].released = 1
             /\ \A i \in 1..Len(handles) : i # six => handles'[i] = handles[i]
      /\ op'.name = "Destroy"
          => \A i \in 1..Len(handles') : handles'[i].released >= 1 ]_vars

C16_Witness ==
  /\ IsDestroy
  /\ Len(handles) = 2
  /\ handles[1].initialized = 0 /\ handles[1].released = 1
  /\ handles[2].initialized = 1 /\ handles[2].released = 1

HomeOf(v) == IF v = 2 THEN pythonHome2 ELSE pythonHome3
NoneBooted == \A i \in 1..Len(handles) : handles[i].initialized = 0

\* C17 (as stated): on Windows any failure of the os.Stat probe, not-found or
\* otherwise, makes PythonHome the executable's folder, and Initialize goes on
\* to boot.
C17_AnyStatFailureOverrides ==
  (IsInitialize /\ goos = "windows" /\ Made("os.Stat") /\ ~Returned("os.Stat", <<"ok">>))
  => (PythonHome = ExeFolder /\ Made("init"))

\* C17 (amended): on Windows only a not-found result of the os.Stat probe makes
\* PythonHome the executable's folder; any other failure of the probe leaves
\* PythonHome at the compiled home path of the configured version; whatever the
\* probe reports Initialize goes on to boot and fails only if the boot fails.
C17_OnlyNotExistOverrides ==
  (IsInitialize /\ goos = "windows" /\ Made("os.Stat"))
  => /\ Returned("os.Stat", <<"ENOENT">>) => PythonHome = ExeFolder
     /\ Returned("os.Stat", <<"EACCES">>) => PythonHome = HomeOf(op.version)
     /\ Made("init")
     /\ (ret = NoError) <=> Returned("is_initialized", <<1>>)

C17_Witness ==
  /\ IsInitialize /\ goos = "windows"
  /\ Returned("os.Stat", <<"EACCES">>)
  /\ PythonHome = pythonHome2
  /\ ret = NoError

\* C18: whenever the handle held in six is live, PythonHome equals the home
\* path that was passed to the constructor call that made it.
C18_PublishedHomeIsHandleHome ==
  (six # nil /\ handles[six].released = 0) => PythonHome = handles[six].home

\* C19 (as stated): an Initialize that returns an error leaves PythonVersion,
\* PythonHome and PythonPath as they were before the call.
C19_ErrorLeavesPublishedState ==
  [][ (op'.name = "Initialize" /\ ret' # NoError)
      => /\ PythonVersion' = PythonVersion
         /\ PythonHome' = PythonHome
         /\ PythonPath' = PythonPath ]_vars

\* C19 (amended): an Initialize that returns an error leaves PythonVersion and
\* PythonPath as they were; PythonHome is left as it was only when the version
\* is unsupported, and otherwise holds the home path chosen for the configured
\* version: the compiled one, or the executable's folder when a handle was
\* created on Windows and the probe reported not-found.
C19_ErrorLeavesVersionAndPath ==
  [][ (op'.name = "Initialize" /\ ret' # NoError)
      => /\ PythonVersion' = PythonVersion
         /\ PythonPath' = PythonPath
         /\ IF op'.version \notin {2, 3}
            THEN PythonHome' = PythonHome
            ELSE PythonHome' =
                   IF \E i \in 1..Len(calls') :
                        calls'[i].f = "os.Stat" /\ calls'[i].ret = <<"ENOENT">>
                   THEN ExeFolder ELSE HomeOf(op'.version) ]_vars

C19_Witness ==
  /\ IsInitialize
  /\ ret = <<"could not init six lib for python version ", 3>>
  /\ PythonVersion = <<"2", "7">>
  /\ PythonHome = pythonHome3
  /\ Len(handles) = 1 /\ handles[1].ctor = "make2"

\* C20 (as stated): PythonVersion is empty exactly in the states in which no
\* Initialize has returned without error.
C20_EmptyIffNotInitialized ==
  (PythonVersion = << >>) <=> NoneBooted

\* C20 (amended): PythonVersion is empty in every state in which no Initialize
\* has returned without error, and it is non-empty after every Initialize that
\* returns without error and in which get_py_version returned a string with at
\* least one character other than a newline.
C20_EmptyUntilVersionReported ==
  [][ /\ NoneBooted => PythonVersion = << >>
      /\ NoneBooted' => PythonVersion' = << >>
      /\ (op'.name = "Initialize" /\ ret' = NoError /\ \E i \in 1..Len(calls') :
            /\ calls'[i].f = "get_py_version"
            /\ calls'[i].ret # NULL
            /\ \E k \in 1..Len(calls'[i].ret[1]) : calls'[i].ret[1][k] # NL)
          => PythonVersion' # << >> ]_vars

C20_Witness ==
  /\ IsInitialize /\ ret = NoError
  /\ Len(handles) = 2 /\ handles[1].initialized = 0
  /\ Returned("get_py_version", << <<"3", NL>> >>)
  /\ PythonVersion = <<"3">>

====
